---- MODULE Spec2Model ----
(***************************************************************************)
(* BB84 key-distribution handshake of key-cipher-chat.                     *)
(*                                                                         *)
(* Two BB84Protocol components (roles "alice" and "bob") exchange messages *)
(* over an ordered, reliable data channel.  Each component keeps its       *)
(* protocol state in React state; message handlers and the later click     *)
(* handlers read it through stateRef.current, which is refreshed by an     *)
(* effect after the next render, and write it through functional           *)
(* setState updaters, which always see the latest state.                   *)
(***************************************************************************)
EXTENDS Integers, Sequences, FiniteSets, TLC

(***************************************************************************)
(* Bounds of the model.                                                    *)
(***************************************************************************)
\* Longest vector whose random content is enumerated exhaustively; also the
\* short option of the "Number of Qubits" selector (100/200/500 in the UI).
\* The long option is LongQubits, explored on representative outcomes.
MaxQubits == 1
\* Options of the "Sample Size" selector are 1..MaxSample (10/20/50 in the UI).
MaxSample == 2
\* Number of user clicks that change something, over the whole behaviour.
MaxClicks == 7
\* Number of "Start New Session" clicks, both roles together.
MaxResets == 1
\* Calls of handleEndChat by one role since it entered the chat.
MaxEndChats == 2
\* Direct calls of the library functions: longest key given to
\* generateCommitment and verifyCommitment,
MaxKeyBits == 8
\* longest pair of keys given to performErrorCorrection,
MaxEcBits == 5
\* largest bitsRevealed given to performPrivacyAmplification,
MaxRevealed == 3
\* and longest vectors given to simulateTransmission; selectRandomSample is
\* called with a sifted length of up to one more.
MaxCallQubits == 3

(***************************************************************************)
(* Program constants.                                                      *)
(***************************************************************************)
\* qberThreshold: 0.11, kept as the fraction 11/100.
QberThresholdNum == 11
QberThresholdDen == 100
\* securityParameter of performPrivacyAmplification.
SecurityParameter == 64
\* "minimum 32 bits" of performPrivacyAmplification.
MinOutputLength == 32
\* number of passes of performErrorCorrection.
MaxParityRounds == 3
\* Math.max(4, ...) in the block size of performErrorCorrection.
MinBlockSize == 4
\* Math.max(estimatedQBER, 0.01): 1 / (2 * 0.01).
MaxBlockSize == 50
\* Result of Math.max(32, NaN): the output length is not a number when the
\* entropy term is 0 * log2(0).  Every real output length is >= 32.
NaN == -1

Roles == {"alice", "bob"}
Peer(r) == IF r = "alice" THEN "bob" ELSE "alice"
Bit == {0, 1}
Basis == {0, 1}

\* `x | null` values: <<>> is null, <<v>> is the value v.
Null == <<>>
Some(v) == <<v>>

Max(a, b) == IF a >= b THEN a ELSE b
Min(a, b) == IF a <= b THEN a ELSE b

RECURSIVE GCD(_, _)
GCD(a, b) == IF b = 0 THEN a ELSE GCD(b, a % b)

\* A JavaScript number that is a ratio of two counts, kept exact.
Ratio(n, d) == LET g == GCD(n, d) IN [num |-> n \div g, den |-> d \div g]
Zero == [num |-> 0, den |-> 1]

\* Array.prototype.slice(0, n).
Slice(s, n) == SubSeq(s, 1, Min(Len(s), Max(n, 0)))

\* The elements of a set of numbers in ascending order (sort((a, b) => a - b)).
RECURSIVE SortedSeq(_)
SortedSeq(S) ==
  IF S = {} THEN <<>>
  ELSE LET m == CHOOSE x \in S : \A y \in S : x <= y
       IN <<m>> \o SortedSeq(S \ {m})

\* The elements of a sequence as a set.
Range(s) == {s[i] : i \in 1..Len(s)}

(***************************************************************************)
(* utils/bb84-protocol.ts                                                  *)
(***************************************************************************)

\* The comparison negated: the positions measured in different bases kept.
performSiftingDiffering(aliceBases, bobBases) ==
  [i \in 1..Len(aliceBases) |-> ~(i <= Len(bobBases) /\ aliceBases[i] = bobBases[i])]

\* keepMask[i] = (aliceBases[i] === bobBases[i]) for every i of the FIRST
\* argument; a missing element of the second compares unequal.
performSifting(aliceBases, bobBases) ==
  [i \in 1..Len(aliceBases) |-> i <= Len(bobBases) /\ aliceBases[i] = bobBases[i]]

\* bits.filter((_, i) => keepMask[i]); a missing mask element is falsy.
RECURSIVE extractFrom(_, _, _)
extractFrom(bits, keepMask, i) ==
  IF i > Len(bits) THEN <<>>
  ELSE (IF i <= Len(keepMask) /\ keepMask[i] THEN <<bits[i]>> ELSE <<>>)
       \o extractFrom(bits, keepMask, i + 1)

\* The filter started one element late.
extractSiftedKeyFromSecond(bits, keepMask) == extractFrom(bits, keepMask, 2)

extractSiftedKey(bits, keepMask) == extractFrom(bits, keepMask, 1)

\* Outcomes of the random source that are explored for a sample of k out of
\* n indices: every k-subset when n is short, the first k and the last k
\* indices when n is long.  Indices are 0-based as in the code.
SampleSets(n, k) ==
  IF n <= MaxQubits
  THEN {S \in SUBSET (0..(n - 1)) : Cardinality(S) = Min(k, n)}
  ELSE {0..(Min(k, n) - 1), (n - Min(k, n))..(n - 1)}

\* The arrays the Fisher-Yates shuffle of 0..n-1 can leave: the swaps
\* indices[i] <-> indices[j], j in 0..i, for i = n-1 down to 1, reach every
\* arrangement of the n indices.
Shuffles(n) ==
  {p \in [1..n -> 0..(n - 1)] : \A i, j \in 1..n : p[i] = p[j] => i = j}

\* Array.prototype.sort((a, b) => a - b): the elements, repeated ones
\* included, in ascending order.
RECURSIVE InsertAscending(_, _)
InsertAscending(x, sorted) ==
  IF sorted = <<>> \/ x <= Head(sorted) THEN <<x>> \o sorted
  ELSE <<Head(sorted)>> \o InsertAscending(x, Tail(sorted))

RECURSIVE SortAscending(_)
SortAscending(seq) ==
  IF seq = <<>> THEN <<>> ELSE InsertAscending(Head(seq), SortAscending(Tail(seq)))

\* The slice returned as the shuffle left it.
SampleOutcomesUnsorted(siftedLength, sampleSize) ==
  {Slice(p, sampleSize) : p \in Shuffles(siftedLength)}

\* indices.slice(0, sampleSize).sort((a, b) => a - b) for every outcome of
\* the shuffle.
SampleOutcomes(siftedLength, sampleSize) ==
  {SortAscending(Slice(p, sampleSize)) : p \in Shuffles(siftedLength)}

\* The index lists explored in a run: every outcome for a short sifted key,
\* the first and the last sampleSize indices for a long one.
selectRandomSample(siftedLength, sampleSize) ==
  IF siftedLength <= MaxQubits
  THEN SampleOutcomes(siftedLength, sampleSize)
  ELSE {SortedSeq(S) : S \in SampleSets(siftedLength, sampleSize)}

\* Every compared position counted, equal or not.
calculateQBERCountsAll(aliceSample, bobSample) ==
  IF Len(aliceSample) = 0 THEN Zero
  ELSE Ratio(Len(aliceSample), Len(aliceSample))

\* errors / aliceSample.length, 0 for an empty sample; a missing element of
\* bobSample counts as an error.
calculateQBER(aliceSample, bobSample) ==
  IF Len(aliceSample) = 0 THEN Zero
  ELSE Ratio(Cardinality({i \in 1..Len(aliceSample) :
                            i > Len(bobSample) \/ aliceSample[i] # bobSample[i]}),
             Len(aliceSample))

\* key.filter((_, i) => !sampleIndices.includes(i))
RECURSIVE removeFrom(_, _, _)
removeFrom(key, idx, i) ==
  IF i > Len(key) THEN <<>>
  ELSE (IF (i - 1) \in idx THEN <<>> ELSE <<key[i]>>) \o removeFrom(key, idx, i + 1)

removeSampledBits(key, sampleIndices) == removeFrom(key, Range(sampleIndices), 1)

\* indices.map(i => key[i]).filter(bit => bit !== undefined)
RECURSIVE pickDefined(_, _, _)
pickDefined(key, indices, j) ==
  IF j > Len(indices) THEN <<>>
  ELSE (IF indices[j] + 1 <= Len(key) THEN <<key[indices[j] + 1]>> ELSE <<>>)
       \o pickDefined(key, indices, j + 1)

SampleOf(key, indices) == pickDefined(key, indices, 1)

\* The block size without its lower limit of 4.
BlockSizeNoMinimum(q) ==
  IF q.num * 100 <= q.den THEN MaxBlockSize
  ELSE (q.den + 2 * q.num - 1) \div (2 * q.num)

\* Math.max(4, Math.ceil(1 / (2 * Math.max(estimatedQBER, 0.01))))
BlockSize(q) ==
  IF q.num * 100 <= q.den THEN MaxBlockSize
  ELSE Max(MinBlockSize, (q.den + 2 * q.num - 1) \div (2 * q.num))

\* The parity taken from the first bit of the block only.
ParityOfFirstBit(key, start, end) ==
  IF start + 1 <= Len(key) /\ start < end THEN key[start + 1] ELSE 0

\* XOR of key[start..end-1] (0-based); `x ^ undefined` leaves x unchanged.
Parity(key, start, end) ==
  Cardinality({i \in start..(end - 1) : i + 1 <= Len(key) /\ key[i + 1] = 1}) % 2

\* One pass over the blocks, from block `start` on.
RECURSIVE ecPass(_, _, _, _, _, _)
ecPass(aliceKey, corrected, start, bs, made, revealed) ==
  IF start >= Len(aliceKey)
  THEN [key |-> corrected, made |-> made, revealed |-> revealed]
  ELSE LET end == Min(start + bs, Len(aliceKey))
           mismatch == Parity(aliceKey, start, end) # Parity(corrected, start, end)
           mid == (start + end) \div 2
           fixed == IF mismatch /\ mid < Len(corrected)
                    THEN [corrected EXCEPT ![mid + 1] = 1 - @]
                    ELSE corrected
       IN ecPass(aliceKey, fixed, start + bs, bs, made \/ mismatch, revealed + 1)

RECURSIVE ecRounds(_, _, _, _, _)
ecRounds(aliceKey, corrected, round, bs, revealed) ==
  IF round >= MaxParityRounds
  THEN [key |-> corrected, rounds |-> round, revealed |-> revealed]
  ELSE LET p == ecPass(aliceKey, corrected, 0, bs, FALSE, revealed)
       IN IF p.made
          THEN ecRounds(aliceKey, p.key, round + 1, bs, p.revealed)
          ELSE [key |-> p.key, rounds |-> round + 1, revealed |-> p.revealed]

performErrorCorrection(aliceKey, bobKey, estimatedQBER) ==
  LET r == ecRounds(aliceKey, bobKey, 0, BlockSize(estimatedQBER), 0)
  IN [initialErrors |-> Cardinality({i \in 1..Len(aliceKey) :
                                       i > Len(bobKey) \/ aliceKey[i] # bobKey[i]}),
      parityRounds |-> r.rounds,
      bitsRevealed |-> r.revealed,
      correctedKey |-> r.key]

\* Binary entropy h(q) in millionths, rounded, for the error rates a sample
\* of at most 10 bits can show.
EntropyTable ==
  <<1,2>> :> 1000000 @@ <<1,3>> :> 918296 @@ <<2,3>> :> 918296 @@
  <<1,4>> :> 811278 @@ <<3,4>> :> 811278 @@ <<1,5>> :> 721928 @@
  <<2,5>> :> 970951 @@ <<3,5>> :> 970951 @@ <<4,5>> :> 721928 @@
  <<1,6>> :> 650022 @@ <<5,6>> :> 650022 @@ <<1,7>> :> 591673 @@
  <<2,7>> :> 863121 @@ <<3,7>> :> 985228 @@ <<4,7>> :> 985228 @@
  <<5,7>> :> 863121 @@ <<6,7>> :> 591673 @@ <<1,8>> :> 543564 @@
  <<3,8>> :> 954434 @@ <<5,8>> :> 954434 @@ <<7,8>> :> 543564 @@
  <<1,9>> :> 503258 @@ <<2,9>> :> 764205 @@ <<4,9>> :> 991076 @@
  <<5,9>> :> 991076 @@ <<7,9>> :> 764205 @@ <<8,9>> :> 503258 @@
  <<1,10>> :> 468996 @@ <<3,10>> :> 881291 @@ <<7,10>> :> 881291 @@
  <<9,10>> :> 468996

\* estimatedQBER > 0 ? -q*log2(q) - (1-q)*log2(1-q) : 0, in millionths.
\* At q = 1 the second term is 0 * -Infinity, which is NaN.
EntropyMillionths(q) ==
  IF q.num <= 0 THEN 0
  ELSE IF q.num = q.den THEN NaN
  ELSE EntropyTable[<<q.num, q.den>>]

\* The disclosed bits credited to the output instead of charged to it.
OutputLengthRevealedAdded(inputLength, estimatedQBER, bitsRevealed) ==
  LET h == EntropyMillionths(estimatedQBER)
  IN IF h = NaN THEN NaN
     ELSE Max(MinOutputLength,
              ((inputLength * (1000000 - h)) \div 1000000)
                + bitsRevealed - SecurityParameter)

\* Math.max(32, Math.floor(inputLength * (1 - h) - bitsRevealed - 64))
OutputLength(inputLength, estimatedQBER, bitsRevealed) ==
  LET h == EntropyMillionths(estimatedQBER)
  IN IF h = NaN THEN NaN
     ELSE Max(MinOutputLength,
              ((inputLength * (1000000 - h)) \div 1000000)
                - bitsRevealed - SecurityParameter)

\* The amplifiedKey the function also computes is read by no caller.
performPrivacyAmplification(key, estimatedQBER, bitsRevealed) ==
  [inputLength |-> Len(key),
   outputLength |-> OutputLength(Len(key), estimatedQBER, bitsRevealed)]

\* key.slice(0, paStats.outputLength); slice(0, NaN) is empty.
CutFinalKey(key, paStats) == Slice(key, paStats.outputLength)

\* The shift alone, (hash << 5) + charCode: multiplication by 32.
hashStepShiftOnly(hi, lo, bit) ==
  LET l == lo * 32 + 48 + bit
      h == hi * 32 + (l \div 65536)
  IN <<h % 65536, l % 65536>>

\* hash = ((hash << 5) - hash) + charCode; hash = hash & hash: multiplication
\* by 31 in 32-bit wrap-around arithmetic, kept as two 16-bit halves.
\* '0' is char code 48 and '1' is 49.
hashStep(hi, lo, bit) ==
  LET l == lo * 31 + 48 + bit
      h == hi * 31 + (l \div 65536)
  IN <<h % 65536, l % 65536>>

\* for (let i = 0; i < keyString.length; i++) over the 32-bit hash.
RECURSIVE hashFrom(_, _, _, _)
hashFrom(key, i, hi, lo) ==
  IF i > Len(key) THEN <<hi, lo>>
  ELSE LET h == hashStep(hi, lo, key[i])
       IN hashFrom(key, i + 1, h[1], h[2])

RECURSIVE HexDigits(_)
HexDigits(n) == IF n < 16 THEN <<n>> ELSE HexDigits(n \div 16) \o <<n % 16>>

\* Number.prototype.toString(16) of a signed 32-bit value given as halves:
\* an optional minus sign and the hexadecimal digits of the magnitude.
ToHex(hi, lo) ==
  IF hi < 32768
  THEN [neg |-> FALSE, digits |-> HexDigits(hi * 65536 + lo)]
  ELSE LET mlo == (65536 - lo) % 65536
           mhi == IF lo = 0 THEN 65536 - hi ELSE 65535 - hi
       IN [neg |-> TRUE,
           digits |-> IF mhi = 32768 THEN <<8, 0, 0, 0, 0, 0, 0, 0>>
                      ELSE HexDigits(mhi * 65536 + mlo)]

generateCommitment(key) ==
  LET h == hashFrom(key, 1, 0, 0) IN ToHex(h[1], h[2])

\* The comparison short-circuited on the key's length.
verifyCommitmentNonEmpty(key, commitment) ==
  Len(key) > 0 /\ generateCommitment(key) = commitment

verifyCommitment(key, commitment) == generateCommitment(key) = commitment


(***************************************************************************)
(* types/quantum.ts: QuantumSimulator                                      *)
(***************************************************************************)

\* A 30-bit key whose digest is 0, the digest of the empty key.
ZeroDigestKey ==
  <<1,1,0,1,1,0,1,0,0,0,1,0,1,1,1,1,1,0,0,1,0,0,1,0,0,1,0,1,0,1>>

\* The long option of the "Number of Qubits" selector.
LongQubits == Len(ZeroDigestKey) + 1

\* generateRandomBits(count): every bit vector when count is short, one
\* representative outcome of the random source when it is long.
generateRandomBits(count) ==
  IF count <= MaxQubits THEN [1..count -> Bit]
  ELSE {[i \in 1..count |-> IF i <= Len(ZeroDigestKey) THEN ZeroDigestKey[i] ELSE 0]}

\* generateRandomBases(count), likewise.
generateRandomBases(count) ==
  IF count <= MaxQubits THEN [1..count -> Basis]
  ELSE {[i \in 1..count |-> 0]}

\* generateRandomBases(count) as called by handlePrepare.  The program only
\* ever compares two bases of the same position for equality, so exchanging
\* the two bases at a position, for Alice, Eve and Bob alike, maps a
\* behaviour to a behaviour: Alice's vector is explored up to that symmetry,
\* as the all-rectilinear one.
generateAliceBases(count) == {[i \in 1..count |-> 0]}

\* Eve resending in Alice's basis instead of her own.
InterceptKeepsBasis(bit, basis, eveIntercepted) ==
  IF eveIntercepted
  THEN {[bit |-> p[2], basis |-> basis,
         eveBasis |-> Some(p[1]), eveOutcome |-> Some(p[2])] :
          p \in {q \in Basis \X Bit : q[1] = basis => q[2] = bit}}
  ELSE {[bit |-> bit, basis |-> basis, eveBasis |-> Null, eveOutcome |-> Null]}

\* The states that can reach Bob (actualBit, actualBasis) with what Eve
\* learnt: she measures in a random basis, gets Alice's bit in Alice's basis
\* and a random bit otherwise, and resends her outcome in her basis.
Intercept(bit, basis, eveIntercepted) ==
  IF eveIntercepted
  THEN {[bit |-> p[2], basis |-> p[1],
         eveBasis |-> Some(p[1]), eveOutcome |-> Some(p[2])] :
          p \in {q \in Basis \X Bit : q[1] = basis => q[2] = bit}}
  ELSE {[bit |-> bit, basis |-> basis, eveBasis |-> Null, eveOutcome |-> Null]}

\* Bob's comparison of bases inverted: the sent bit is read in the other basis.
measureQiskitStyleOtherBasis(bit, basis, measureBasis, eveIntercepted) ==
  LET sent == Intercept(bit, basis, eveIntercepted)
  IN UNION {{[bobOutcome |-> o, eveBasis |-> t.eveBasis, eveOutcome |-> t.eveOutcome] :
               o \in IF measureBasis # Some(t.basis) THEN {t.bit} ELSE Bit} :
            t \in sent}

\* The results measureQiskitStyle can return for one qubit.  measureBasis is
\* Null when Bob's basis vector has no element at this position.
measureQiskitStyle(bit, basis, measureBasis, eveIntercepted) ==
  LET sent == Intercept(bit, basis, eveIntercepted)
  IN UNION {{[bobOutcome |-> o, eveBasis |-> t.eveBasis, eveOutcome |-> t.eveOutcome] :
               o \in IF measureBasis = Some(t.basis) THEN {t.bit} ELSE Bit} :
            t \in sent}

\* Bob's possible outcomes at position i.
OutcomesAt(aliceBits, aliceBases, bobBases, eveEnabled, i) ==
  {m.bobOutcome :
     m \in measureQiskitStyle(aliceBits[i],
                              IF i <= Len(aliceBases) THEN aliceBases[i] ELSE 2,
                              IF i <= Len(bobBases) THEN Some(bobBases[i]) ELSE Null,
                              eveEnabled)}

\* The bobOutcomes vectors simulateTransmission can return: one outcome per
\* element of aliceBits, each any result of measureQiskitStyle.
TransmissionOutcomes(aliceBits, aliceBases, bobBases, eveEnabled) ==
  {o \in [1..Len(aliceBits) -> Bit] :
     \A i \in 1..Len(aliceBits) :
        o[i] \in OutcomesAt(aliceBits, aliceBases, bobBases, eveEnabled, i)}

\* The vectors explored in a run.  For long vectors two representatives:
\* the smallest outcome an undisturbed channel allows at every position and,
\* when Eve intercepts, the same vector with another outcome she makes
\* possible at the first position.
simulateTransmission(aliceBits, aliceBases, bobBases, eveEnabled) ==
  IF Len(aliceBits) <= MaxQubits
  THEN TransmissionOutcomes(aliceBits, aliceBases, bobBases, eveEnabled)
  ELSE LET quiet == [i \in 1..Len(aliceBits) |->
                       LET O == OutcomesAt(aliceBits, aliceBases, bobBases, FALSE, i)
                       IN CHOOSE o \in O : \A p \in O : o <= p]
           first == OutcomesAt(aliceBits, aliceBases, bobBases, eveEnabled, 1)
       IN {quiet} \cup {[quiet EXCEPT ![1] = o] : o \in first}


(***************************************************************************)
(* components/BB84Protocol.tsx: state                                      *)
(***************************************************************************)

\* st[r]     the component's React state after every queued update: the
\*           ProtocolState plus the peerReady, hasSentBases and loading hooks
\* ref[r]    the state as of the last render: stateRef.current and the
\*           values the click handlers and the buttons close over
\* timer[r]  the pending setTimeout callback of a click handler, if any,
\*           with the values it closed over
\* chan[r]   the messages in flight to r, oldest first
\* config[r] the BB84Config of r
\* clicks    clicks performed so far
\* resets[r] resets performed by r so far
\* over[r]   r computed a QBER above the threshold since its last reset
\* disclosed[r]  the sifted-key indices named in the qber_request messages
\*           r has sent (Alice) or handled (Bob) since its last reset
\* fn        the latest direct call of a function of utils/bb84-protocol.ts
\*           or of the simulator, with its arguments and its result; the
\*           component never makes such a call on its own account
\* chat[r]   handler: the callback r's connection holds, the component's
\*           handleMessage ("protocol") or SecureChat's ("chat");
\*           pending: the setTimeout callbacks of handleEndChat not yet run;
\*           ended: the calls of handleEndChat since r last entered the chat
VARIABLES st, ref, timer, chan, config, clicks, resets, over, disclosed, fn,
          chat

vars == <<st, ref, timer, chan, config, clicks, resets, over, disclosed, fn, chat>>

NumQubitsOptions == {MaxQubits, LongQubits}
SampleSizeOptions == 1..MaxSample

\* The configurations explored.  Alice's component reads numQubits and
\* sampleSize, Bob's reads numQubits and eveEnabled; a field its role never
\* reads keeps the value of useState<BB84Config>.  The selectors are disabled
\* outside idle, and the configuration is taken as chosen before the run.
Configs ==
  {c \in [Roles -> [numQubits : NumQubitsOptions,
                    sampleSize : SampleSizeOptions,
                    eveEnabled : BOOLEAN]] :
     /\ ~c["alice"].eveEnabled
     /\ c["bob"].sampleSize = MaxSample}

\* useState<ProtocolState>({...}), peerReady, hasSentBases, loading.
InitialState ==
  [step |-> "idle", aliceBits |-> <<>>, aliceBases |-> <<>>, bobBases |-> <<>>,
   bobOutcomes |-> <<>>, keepMask |-> <<>>, siftedKey |-> <<>>,
   sampleIndices |-> <<>>, qber |-> Null, ecStats |-> Null, paStats |-> Null,
   finalKey |-> <<>>, abortReason |-> Null,
   peerReady |-> FALSE, hasSentBases |-> FALSE, loading |-> FALSE]

\* connection.onMessage(handleMessage) in the component's effect, before any
\* chat.
NoChat == [handler |-> "protocol", pending |-> 0, ended |-> 0]

Init ==
  /\ st = [r \in Roles |-> InitialState]
  /\ ref = [r \in Roles |-> InitialState]
  /\ timer = [r \in Roles |-> Null]
  /\ chan = [r \in Roles |-> <<>>]
  /\ config \in Configs
  /\ clicks = 0
  /\ resets = [r \in Roles |-> 0]
  /\ over = [r \in Roles |-> FALSE]
  /\ disclosed = [r \in Roles |-> {}]
  /\ fn = [op |-> "none"]
  /\ chat = [r \in Roles |-> NoChat]

\* connection.sendMessage(msg) by r: the messages join the peer's queue.
\* sentIn records how many resets the receiver had performed at that time.
Tagged(r, msgs) ==
  [i \in 1..Len(msgs) |-> [msg |-> msgs[i], sentIn |-> resets[Peer(r)],
                             about |-> Null]]

\* The entries sent from inside the handler of message m.  about records, for
\* what is sent on a qber_request, the sample indices of that request.
InReplyTo(entries, m) ==
  [i \in 1..Len(entries) |->
     [entries[i] EXCEPT !.about = IF m.type = "qber_request"
                                  THEN Some(m.sampleIndices) ELSE Null]]

\* qber > currentConfig.qberThreshold
QberExceeds(qber) == qber.num * QberThresholdDen > QberThresholdNum * qber.den

\* qber ?? 0 and ecStats?.bitsRevealed ?? 0
QberOrZero(s) == IF s.qber = Null THEN Zero ELSE s.qber[1]
BitsRevealedOrZero(s) == IF s.ecStats = Null THEN 0 ELSE s.ecStats[1].bitsRevealed

\* handleAbort(reason)
handleAbort(prev, reason) ==
  [prev EXCEPT !.step = "aborted", !.abortReason = Some(reason)]

\* What a handler does: the new state, the messages sent, and whether a QBER
\* above the threshold was computed.
Result(s, out) == [st |-> s, out |-> out, over |-> FALSE]

(***************************************************************************)
(* handleMessage: cur is stateRef.current, prev the latest state.          *)
(***************************************************************************)

OnPrepared(role, cur, prev, m) ==
  IF role = "bob"
  THEN Result([prev EXCEPT !.aliceBits = m.aliceBits,
                           !.aliceBases = m.aliceBases,
                           !.peerReady = TRUE], <<>>)
  ELSE Result(prev, <<>>)

OnMeasured(role, cur, prev, m) ==
  IF role = "alice"
  THEN Result([prev EXCEPT !.peerReady = TRUE, !.step = "sifting"], <<>>)
  ELSE Result(prev, <<>>)

OnAnnounceBases(role, cur, prev, m) ==
  LET myBases == IF role = "alice" THEN cur.aliceBases ELSE cur.bobBases
      keepMask == performSifting(myBases, m.bases)
      myBits == IF role = "alice" THEN cur.aliceBits ELSE cur.bobOutcomes
      siftedKey == extractSiftedKey(myBits, keepMask)
  IN Result([prev EXCEPT !.hasSentBases = TRUE,
                         !.bobBases = IF role = "alice" THEN m.bases ELSE @,
                         !.keepMask = keepMask,
                         !.siftedKey = siftedKey,
                         !.step = "qber"],
            (IF prev.hasSentBases THEN <<>>
             ELSE <<[type |-> "announce_bases", bases |-> myBases]>>)
            \o (IF role = "bob"
                THEN <<[type |-> "sifting_result", keepMask |-> keepMask]>>
                ELSE <<>>))

OnSiftingResult(role, cur, prev, m) ==
  IF role = "alice"
  THEN Result([prev EXCEPT !.step = "qber",
                           !.siftedKey = extractSiftedKey(cur.aliceBits, m.keepMask),
                           !.keepMask = m.keepMask], <<>>)
  ELSE Result(prev, <<>>)

\* The decision with the comparison turned around: aborts below the threshold.
QberDecisionReversed(prev, qber, key, sampleIndices) ==
  IF ~QberExceeds(qber)
  THEN handleAbort(prev, "QBER exceeds threshold")
  ELSE [prev EXCEPT !.step = "error-correction",
                    !.qber = Some(qber),
                    !.siftedKey = removeSampledBits(key, sampleIndices)]

\* if (qber > threshold) handleAbort(...) else setState(... 'error-correction')
QberDecision(prev, qber, key, sampleIndices) ==
  IF QberExceeds(qber)
  THEN handleAbort(prev, "QBER exceeds threshold")
  ELSE [prev EXCEPT !.step = "error-correction",
                    !.qber = Some(qber),
                    !.siftedKey = removeSampledBits(key, sampleIndices)]

OnQberRequest(role, cur, prev, m) ==
  IF role = "bob"
  THEN LET bobSiftedKey == extractSiftedKey(cur.bobOutcomes, cur.keepMask)
           bobSample == SampleOf(bobSiftedKey, m.sampleIndices)
           qber == calculateQBER(m.sampleBits, bobSample)
       IN IF Len(bobSample) # Len(m.sampleIndices)
          THEN Result(handleAbort(prev, "Insufficient sifted bits for QBER estimation"),
                      <<>>)
          ELSE [st |-> QberDecision(prev, qber, bobSiftedKey, m.sampleIndices),
                out |-> <<[type |-> "qber_response", sampleBits |-> bobSample]>>,
                over |-> QberExceeds(qber)]
  ELSE Result(prev, <<>>)

OnQberResponse(role, cur, prev, m) ==
  IF role = "alice"
  THEN LET aliceSiftedKey == extractSiftedKey(cur.aliceBits, cur.keepMask)
           aliceSample == SampleOf(aliceSiftedKey, cur.sampleIndices)
           qber == calculateQBER(aliceSample, m.sampleBits)
       IN IF Len(aliceSample) # Len(cur.sampleIndices)
          THEN Result(handleAbort(prev, "Insufficient sifted bits for QBER evaluation"),
                      <<>>)
          ELSE [st |-> QberDecision(prev, qber, aliceSiftedKey, cur.sampleIndices),
                out |-> <<>>,
                over |-> QberExceeds(qber)]
  ELSE Result(prev, <<>>)

\* The handler without the adoption of Alice's key: Bob keeps his own.
OnErrorCorrectionStatsKeepOwn(role, cur, prev, m) ==
  IF role = "bob"
  THEN Result([prev EXCEPT !.ecStats = Some(m.stats),
                           !.step = "privacy-amplification"], <<>>)
  ELSE Result(prev, <<>>)

OnErrorCorrectionStats(role, cur, prev, m) ==
  IF role = "bob"
  THEN Result([prev EXCEPT !.ecStats = Some(m.stats),
                           !.siftedKey = m.stats.correctedKey,
                           !.step = "privacy-amplification"], <<>>)
  ELSE Result(prev, <<>>)

OnFinalKeyCommitment(role, cur, prev, m) ==
  IF role = "bob"
  THEN LET paStats == performPrivacyAmplification(cur.siftedKey, QberOrZero(cur),
                                                  BitsRevealedOrZero(cur))
           finalKey == CutFinalKey(cur.siftedKey, paStats)
           match == verifyCommitment(finalKey, m.commitment)
       IN Result(IF match
                 THEN [prev EXCEPT !.paStats = Some(paStats),
                                   !.finalKey = finalKey,
                                   !.step = "success"]
                 ELSE [prev EXCEPT !.step = "aborted",
                                   !.abortReason = Some("Key verification failed")],
                 <<[type |-> "final_key_confirmed", match |-> match]>>)
  ELSE Result(prev, <<>>)

OnFinalKeyConfirmed(role, cur, prev, m) ==
  IF m.match
  THEN Result([prev EXCEPT !.step = "success"], <<>>)
  ELSE Result(handleAbort(prev, "Key commitment mismatch"), <<>>)

handleMessage(role, cur, prev, m) ==
  CASE m.type = "prepared" -> OnPrepared(role, cur, prev, m)
    [] m.type = "measured" -> OnMeasured(role, cur, prev, m)
    [] m.type = "announce_bases" -> OnAnnounceBases(role, cur, prev, m)
    [] m.type = "sifting_result" -> OnSiftingResult(role, cur, prev, m)
    [] m.type = "qber_request" -> OnQberRequest(role, cur, prev, m)
    [] m.type = "qber_response" -> OnQberResponse(role, cur, prev, m)
    [] m.type = "error_correction_stats" -> OnErrorCorrectionStats(role, cur, prev, m)
    [] m.type = "final_key_commitment" -> OnFinalKeyCommitment(role, cur, prev, m)
    [] m.type = "final_key_confirmed" -> OnFinalKeyConfirmed(role, cur, prev, m)
    [] OTHER -> Result(prev, <<>>)

\* The data channel hands the oldest message in flight to r's handler.
Deliver(r) ==
  /\ chan[r] # <<>>
  /\ chat[r].handler = "protocol"
  /\ LET res == handleMessage(r, ref[r], st[r], Head(chan[r]).msg)
     IN /\ st' = [st EXCEPT ![r] = res.st]
        /\ chan' = [chan EXCEPT ![r] = Tail(@),
                                ![Peer(r)] = @ \o InReplyTo(Tagged(r, res.out),
                                                             Head(chan[r]).msg)]
        /\ over' = [over EXCEPT ![r] = @ \/ res.over]
        /\ disclosed' = [disclosed EXCEPT ![r] =
                           IF r = "bob" /\ Head(chan[r]).msg.type = "qber_request"
                           THEN @ \cup Range(Head(chan[r]).msg.sampleIndices)
                           ELSE @]
  /\ UNCHANGED <<ref, timer, config, clicks, resets, fn, chat>>

\* React renders r's component and runs the effect that stores the state in
\* stateRef.current; the callbacks now close over this state.
Render(r) ==
  /\ ref[r] # st[r]
  /\ ref' = [ref EXCEPT ![r] = st[r]]
  /\ UNCHANGED <<st, timer, chan, config, clicks, resets, over, disclosed, fn, chat>>


(***************************************************************************)
(* Click handlers.  A person clicks on the page as rendered, on a button   *)
(* that render left enabled, and long after the last handler ran: by the   *)
(* time of a click both components have rendered their latest state.       *)
(* Messages, however, may be handled in a burst, several between two       *)
(* renders.  Updates made in a click handler are rendered, and stateRef    *)
(* refreshed, before the click event returns (React renders discrete       *)
(* events synchronously); updates made in a message handler or in a        *)
(* timeout callback wait for Render.                                       *)
(***************************************************************************)

Settled(r) == st[r] = ref[r]

CanClick(r) == clicks < MaxClicks /\ \A q \in Roles : Settled(q)

\* handlePrepare up to setTimeout: Alice, idle, button not loading.
ClickPrepare(r) ==
  /\ CanClick(r)
  /\ r = "alice" /\ ref[r].step = "idle" /\ ~ref[r].loading
  /\ st' = [st EXCEPT ![r].loading = TRUE]
  /\ timer' = [timer EXCEPT ![r] = Some([kind |-> "prepare",
                                         numQubits |-> config[r].numQubits])]
  /\ clicks' = clicks + 1
  /\ ref' = [ref EXCEPT ![r] = st'[r]]
  /\ UNCHANGED <<chan, config, resets, over, disclosed, fn, chat>>

\* The setTimeout callback of handlePrepare.
PrepareTimeout(r) ==
  /\ timer[r] # Null /\ timer[r][1].kind = "prepare"
  /\ \E aliceBits \in generateRandomBits(timer[r][1].numQubits),
        aliceBases \in generateAliceBases(timer[r][1].numQubits) :
       /\ st' = [st EXCEPT ![r] = [@ EXCEPT !.step = "preparation",
                                            !.aliceBits = aliceBits,
                                            !.aliceBases = aliceBases,
                                            !.bobBases = <<>>,
                                            !.bobOutcomes = <<>>,
                                            !.loading = FALSE]]
       /\ chan' = [chan EXCEPT ![Peer(r)] =
                     @ \o Tagged(r, <<[type |-> "prepared",
                                       numQubits |-> timer[r][1].numQubits,
                                       aliceBits |-> aliceBits,
                                       aliceBases |-> aliceBases]>>)]
  /\ timer' = [timer EXCEPT ![r] = Null]
  /\ UNCHANGED <<ref, config, clicks, resets, over, disclosed, fn, chat>>

\* handleMeasure up to setTimeout: Bob, peerReady, idle, button not loading.
ClickMeasure(r) ==
  /\ CanClick(r)
  /\ r = "bob" /\ ref[r].peerReady /\ ref[r].step = "idle" /\ ~ref[r].loading
  /\ st' = [st EXCEPT ![r].loading = TRUE]
  /\ timer' = [timer EXCEPT ![r] = Some([kind |-> "measure",
                                         numQubits |-> config[r].numQubits,
                                         eveEnabled |-> config[r].eveEnabled,
                                         aliceBits |-> ref[r].aliceBits,
                                         aliceBases |-> ref[r].aliceBases])]
  /\ clicks' = clicks + 1
  /\ ref' = [ref EXCEPT ![r] = st'[r]]
  /\ UNCHANGED <<chan, config, resets, over, disclosed, fn, chat>>

\* The setTimeout callback of handleMeasure.
MeasureTimeout(r) ==
  /\ timer[r] # Null /\ timer[r][1].kind = "measure"
  /\ LET t == timer[r][1]
     IN \E bobBases \in generateRandomBases(t.numQubits) :
          \E bobOutcomes \in simulateTransmission(t.aliceBits, t.aliceBases,
                                                  bobBases, t.eveEnabled) :
            /\ st' = [st EXCEPT ![r] = [@ EXCEPT !.step = "measurement",
                                                 !.bobBases = bobBases,
                                                 !.bobOutcomes = bobOutcomes,
                                                 !.loading = FALSE]]
            /\ chan' = [chan EXCEPT ![Peer(r)] =
                          @ \o Tagged(r, <<[type |-> "measured",
                                            numQubits |-> t.numQubits]>>)]
  /\ timer' = [timer EXCEPT ![r] = Null]
  /\ UNCHANGED <<ref, config, clicks, resets, over, disclosed, fn, chat>>

\* handleSifting up to setTimeout: step sifting, bases not sent yet.
ClickSifting(r) ==
  /\ CanClick(r)
  /\ ref[r].step = "sifting" /\ ~ref[r].loading /\ ~ref[r].hasSentBases
  /\ st' = [st EXCEPT ![r].loading = TRUE]
  /\ timer' = [timer EXCEPT ![r] =
                 Some([kind |-> "sifting",
                       bases |-> IF r = "alice" THEN ref[r].aliceBases
                                 ELSE ref[r].bobBases])]
  /\ clicks' = clicks + 1
  /\ ref' = [ref EXCEPT ![r] = st'[r]]
  /\ UNCHANGED <<chan, config, resets, over, disclosed, fn, chat>>

\* The callback without setHasSentBases(true).
SiftingTimeoutForgetsFlag(r) ==
  /\ timer[r] # Null /\ timer[r][1].kind = "sifting"
  /\ st' = [st EXCEPT ![r] = [@ EXCEPT !.loading = FALSE]]
  /\ chan' = [chan EXCEPT ![Peer(r)] =
                @ \o Tagged(r, <<[type |-> "announce_bases",
                                  bases |-> timer[r][1].bases]>>)]
  /\ timer' = [timer EXCEPT ![r] = Null]
  /\ UNCHANGED <<ref, config, clicks, resets, over, disclosed, fn, chat>>

\* The setTimeout callback of handleSifting.
SiftingTimeout(r) ==
  /\ timer[r] # Null /\ timer[r][1].kind = "sifting"
  /\ st' = [st EXCEPT ![r] = [@ EXCEPT !.hasSentBases = TRUE, !.loading = FALSE]]
  /\ chan' = [chan EXCEPT ![Peer(r)] =
                @ \o Tagged(r, <<[type |-> "announce_bases",
                                  bases |-> timer[r][1].bases]>>)]
  /\ timer' = [timer EXCEPT ![r] = Null]
  /\ UNCHANGED <<ref, config, clicks, resets, over, disclosed, fn, chat>>

\* handleQBEREstimation: Alice, step qber, a non-empty sifted key (with an
\* empty one the handler only shows a toast).
handleQBEREstimation(r) ==
  /\ CanClick(r)
  /\ r = "alice" /\ ref[r].step = "qber" /\ ~ref[r].loading
  /\ Len(ref[r].siftedKey) # 0
  /\ \E sampleIndices \in selectRandomSample(Len(ref[r].siftedKey),
                                             config[r].sampleSize) :
       /\ st' = [st EXCEPT ![r].sampleIndices = sampleIndices]
       /\ disclosed' = [disclosed EXCEPT ![r] = @ \cup Range(sampleIndices)]
       /\ chan' = [chan EXCEPT ![Peer(r)] =
                     @ \o Tagged(r, <<[type |-> "qber_request",
                                       sampleIndices |-> sampleIndices,
                                       sampleBits |-> [j \in 1..Len(sampleIndices) |->
                                          ref[r].siftedKey[sampleIndices[j] + 1]]]>>)]
  /\ clicks' = clicks + 1
  /\ ref' = [ref EXCEPT ![r] = st'[r]]
  /\ UNCHANGED <<timer, config, resets, over, fn, chat>>

\* handleErrorCorrection: for Bob the handler only switches loading on and
\* off again, which changes nothing; Alice reconciles against the outcomes
\* she holds for Bob.
handleErrorCorrection(r) ==
  /\ CanClick(r)
  /\ ref[r].step = "error-correction" /\ ~ref[r].loading
  /\ r = "alice"
  /\ LET bobSiftedKey == extractSiftedKey(ref[r].bobOutcomes, ref[r].keepMask)
         keyForEC == removeSampledBits(bobSiftedKey, ref[r].sampleIndices)
         ecStats == performErrorCorrection(ref[r].siftedKey, keyForEC,
                                           QberOrZero(ref[r]))
     IN /\ st' = [st EXCEPT ![r] = [@ EXCEPT !.ecStats = Some(ecStats),
                                             !.siftedKey = ecStats.correctedKey,
                                             !.step = "privacy-amplification"]]
        /\ chan' = [chan EXCEPT ![Peer(r)] =
                      @ \o Tagged(r, <<[type |-> "error_correction_stats",
                                        stats |-> ecStats]>>)]
  /\ clicks' = clicks + 1
  /\ ref' = [ref EXCEPT ![r] = st'[r]]
  /\ UNCHANGED <<timer, config, resets, over, disclosed, fn, chat>>

\* handlePrivacyAmplification: either role, step privacy-amplification.
handlePrivacyAmplification(r) ==
  /\ CanClick(r)
  /\ ref[r].step = "privacy-amplification" /\ ~ref[r].loading
  /\ LET paStats == performPrivacyAmplification(ref[r].siftedKey, QberOrZero(ref[r]),
                                                BitsRevealedOrZero(ref[r]))
         finalKey == CutFinalKey(ref[r].siftedKey, paStats)
     IN /\ st' = [st EXCEPT ![r] = [@ EXCEPT !.paStats = Some(paStats),
                                             !.finalKey = finalKey,
                                             !.step = "success"]]
        /\ chan' = [chan EXCEPT ![Peer(r)] =
                      @ \o Tagged(r, <<[type |-> "final_key_commitment",
                                        commitment |-> generateCommitment(finalKey)]>>)]
  /\ clicks' = clicks + 1
  /\ ref' = [ref EXCEPT ![r] = st'[r]]
  /\ UNCHANGED <<timer, config, resets, over, disclosed, fn, chat>>

\* The new state spread over the previous one, with finalKey left out of it.
handleResetSpreadsPrev(r) ==
  /\ CanClick(r)
  /\ ref[r].step \in {"success", "aborted"}
  /\ resets["alice"] + resets["bob"] < MaxResets
  /\ st' = [st EXCEPT ![r] = [InitialState EXCEPT !.loading = st[r].loading,
                                                  !.finalKey = st[r].finalKey]]
  /\ resets' = [resets EXCEPT ![r] = @ + 1]
  /\ over' = [over EXCEPT ![r] = FALSE]
  /\ disclosed' = [disclosed EXCEPT ![r] = {}]
  /\ clicks' = clicks + 1
  /\ ref' = [ref EXCEPT ![r] = st'[r]]
  /\ UNCHANGED <<timer, chan, config, fn, chat>>

\* handleReset, from the "Start New Session" button shown in success and in
\* aborted.  The loading flag is not part of what it resets.
handleReset(r) ==
  /\ CanClick(r)
  /\ ref[r].step \in {"success", "aborted"}
  /\ resets["alice"] + resets["bob"] < MaxResets
  /\ st' = [st EXCEPT ![r] = [InitialState EXCEPT !.loading = st[r].loading]]
  /\ resets' = [resets EXCEPT ![r] = @ + 1]
  /\ over' = [over EXCEPT ![r] = FALSE]
  /\ disclosed' = [disclosed EXCEPT ![r] = {}]
  /\ clicks' = clicks + 1
  /\ ref' = [ref EXCEPT ![r] = st'[r]]
  /\ UNCHANGED <<timer, chan, config, fn, chat>>

Next ==
  \/ \E r \in Roles : Deliver(r)
  \/ \E r \in Roles : Render(r)
  \/ \E r \in Roles : ClickPrepare(r)
  \/ \E r \in Roles : PrepareTimeout(r)
  \/ \E r \in Roles : ClickMeasure(r)
  \/ \E r \in Roles : MeasureTimeout(r)
  \/ \E r \in Roles : ClickSifting(r)
  \/ \E r \in Roles : SiftingTimeout(r)
  \/ \E r \in Roles : handleQBEREstimation(r)
  \/ \E r \in Roles : handleErrorCorrection(r)
  \/ \E r \in Roles : handlePrivacyAmplification(r)
  \/ \E r \in Roles : handleReset(r)

Spec == Init /\ [][Next]_vars

(***************************************************************************)
(* The secure chat: SecureChat, rendered in place of the protocol view     *)
(* while state.step is 'chat'.  The chat's text messages are left out; the *)
(* component's handler has no case for them.                               *)
(***************************************************************************)

\* "Enter Secure Chat", shown in success: handleEnterChat, then the mount of
\* SecureChat, whose effect hands its own handler to the connection.
handleEnterChat(r) ==
  /\ \A q \in Roles : Settled(q)
  /\ ref[r].step = "success"
  /\ st' = [st EXCEPT ![r].step = "chat"]
  /\ ref' = [ref EXCEPT ![r] = st'[r]]
  /\ chat' = [chat EXCEPT ![r] = [handler |-> "chat", pending |-> @.pending,
                                  ended |-> 0]]
  /\ UNCHANGED <<timer, chan, config, clicks, resets, over, disclosed, fn>>

\* handleEndChat: sends chat_ended and schedules onEnd.  inbox is what stays
\* in flight to r.
handleEndChat(r, inbox) ==
  /\ chan' = [chan EXCEPT ![r] = inbox,
                          ![Peer(r)] = @ \o Tagged(r, <<[type |-> "chat_ended"]>>)]
  /\ chat' = [chat EXCEPT ![r].pending = @ + 1, ![r].ended = @ + 1]

\* The End Chat button, or the countdown reaching zero.
ClickEndChat(r) ==
  /\ \A q \in Roles : Settled(q)
  /\ ref[r].step = "chat"
  /\ chat[r].ended < MaxEndChats
  /\ handleEndChat(r, chan[r])
  /\ UNCHANGED <<st, ref, timer, config, clicks, resets, over, disclosed, fn>>

\* The connection calls the one callback it holds; here SecureChat's, which
\* stays in place after SecureChat is unmounted.
DeliverChat(r) ==
  /\ chan[r] # <<>>
  /\ chat[r].handler = "chat"
  /\ IF Head(chan[r]).msg.type = "chat_ended"
     THEN /\ chat[r].ended < MaxEndChats
          /\ handleEndChat(r, Tail(chan[r]))
     ELSE /\ chan' = [chan EXCEPT ![r] = Tail(@)]
          /\ UNCHANGED chat
  /\ UNCHANGED <<st, ref, timer, config, clicks, resets, over, disclosed, fn>>

\* The setTimeout callback of handleEndChat: onEnd, which is handleReset.
ChatEndTimeout(r) ==
  /\ chat[r].pending > 0
  /\ st' = [st EXCEPT ![r] = [InitialState EXCEPT !.loading = st[r].loading]]
  /\ resets' = [resets EXCEPT ![r] = @ + 1]
  /\ over' = [over EXCEPT ![r] = FALSE]
  /\ disclosed' = [disclosed EXCEPT ![r] = {}]
  /\ chat' = [chat EXCEPT ![r].pending = @ - 1]
  /\ UNCHANGED <<ref, timer, chan, config, clicks, fn>>

\* The run before the chat: one short key, no eavesdropper.
InitChat ==
  /\ Init
  /\ \A r \in Roles : config[r].numQubits = MaxQubits /\ ~config[r].eveEnabled
  /\ config["alice"].sampleSize = 1

NextChat ==
  \/ Next
  \/ \E r \in Roles : handleEnterChat(r)
  \/ \E r \in Roles : ClickEndChat(r)
  \/ \E r \in Roles : DeliverChat(r)
  \/ \E r \in Roles : ChatEndTimeout(r)

SpecChat == InitChat /\ [][NextChat]_vars


(***************************************************************************)
(* Vocabulary of the properties.                                           *)
(***************************************************************************)

\* Position of a step in Idle, Prepared, Measured, Sifting, QberCheck,
\* ErrorCorrection, PrivacyAmplification, Success/Aborted.
Rank(step) ==
  CASE step = "idle" -> 0
    [] step = "preparation" -> 1
    [] step = "measurement" -> 2
    [] step = "sifting" -> 3
    [] step = "qber" -> 4
    [] step = "error-correction" -> 5
    [] step = "privacy-amplification" -> 6
    [] step = "success" -> 7
    [] step = "aborted" -> 7

NonTerminal ==
  {"preparation", "measurement", "sifting", "qber", "error-correction",
   "privacy-amplification"}

\* The steps in which a role waits for a message of a type (section 6 of the
\* specification: sender phase of each message).
ExpectedSteps(role, type) ==
  CASE type = "prepared" /\ role = "bob" -> {"idle"}
    [] type = "measured" /\ role = "alice" -> {"preparation"}
    [] type = "announce_bases" /\ role = "alice" -> {"sifting"}
    [] type = "announce_bases" /\ role = "bob" -> {"measurement"}
    [] type = "sifting_result" /\ role = "alice" -> {"sifting", "qber"}
    [] type = "qber_request" /\ role = "bob" -> {"qber"}
    [] type = "qber_response" /\ role = "alice" -> {"qber"}
    [] type = "error_correction_stats" /\ role = "bob" -> {"error-correction"}
    [] type = "final_key_commitment" /\ role = "bob" -> {"privacy-amplification"}
    [] type = "final_key_confirmed" /\ role = "alice" ->
         {"privacy-amplification", "success"}
    [] OTHER -> {}

\* This step hands the oldest message in flight to r's handler.
Delivered(r) == chan[r] # <<>> /\ chan'[r] = Tail(chan[r])

\* The messages r sends in this step.
Sent(r) ==
  {chan'[Peer(r)][i].msg : i \in (Len(chan[Peer(r)]) + 1)..Len(chan'[Peer(r)])}

\* The bit vectors a message carries.
BitVectors(m) ==
  CASE m.type = "prepared" -> {m.aliceBits}
    [] m.type \in {"qber_request", "qber_response"} -> {m.sampleBits}
    [] m.type = "error_correction_stats" -> {m.stats.correctedKey}
    [] OTHER -> {}

\* Nothing in flight, no timeout pending, both components rendered: nothing
\* happens any more unless somebody clicks.
Quiescent == \A r \in Roles : chan[r] = <<>> /\ timer[r] = Null /\ Settled(r)

(***************************************************************************)
(* C1.  Whenever Alice and Bob are both in success in the same run, they   *)
(* hold the same final key.                                                *)
(***************************************************************************)
C1_SharedKey ==
  (st["alice"].step = "success" /\ st["bob"].step = "success"
     /\ resets["alice"] = resets["bob"])
  => st["alice"].finalKey = st["bob"].finalKey

(***************************************************************************)
(* C2.  A role that computed a QBER above the threshold in the QBER        *)
(* exchange is not in success before its next reset.                       *)
(***************************************************************************)
C2_QberAbortIsFinal == \A r \in Roles : over[r] => st[r].step # "success"

(***************************************************************************)
(* C3.  When the handler of qber_request (Bob) or qber_response (Alice)    *)
(* gets as far as computing the QBER and the QBER is at most 11/100, the   *)
(* role ends the handler in error-correction with that QBER stored.        *)
(***************************************************************************)
\* The QBER r's handler computes for the oldest message in flight, if that is
\* the QBER message r handles and the sample is complete; Null otherwise.
ComputedQber(r) ==
  LET m == Head(chan[r]).msg
      key == extractSiftedKey(IF r = "bob" THEN ref[r].bobOutcomes
                              ELSE ref[r].aliceBits, ref[r].keepMask)
      indices == IF r = "bob" THEN m.sampleIndices ELSE ref[r].sampleIndices
      mine == SampleOf(key, indices)
  IN IF m.type # (IF r = "bob" THEN "qber_request" ELSE "qber_response")
     THEN Null
     ELSE IF Len(mine) # Len(indices) THEN Null
     ELSE Some(IF r = "bob" THEN calculateQBER(m.sampleBits, mine)
               ELSE calculateQBER(mine, m.sampleBits))

C3_AcceptUpToThreshold ==
  [][\A r \in Roles :
       (Delivered(r) /\ ComputedQber(r) # Null
          /\ ComputedQber(r)[1].num * 100 <= 11 * ComputedQber(r)[1].den)
       => /\ st'[r].step = "error-correction"
          /\ st'[r].qber = ComputedQber(r)]_vars

\* A role has accepted a QBER and moved to error correction.
C3_Witness ==
  \E r \in Roles :
    /\ st[r].step = "error-correction"
    /\ st[r].qber # Null
    /\ st[r].qber[1].num * 100 <= 11 * st[r].qber[1].den

(***************************************************************************)
(* C4.  When nothing is in flight or pending any more, a role that is      *)
(* aborted in a run its peer has not left by a reset does not face a peer  *)
(* in a non-terminal step: an abort reaches the peer.                      *)
(***************************************************************************)
C4_AbortConverges ==
  Quiescent =>
    \A r \in Roles :
      (st[r].step = "aborted" /\ resets[Peer(r)] <= resets[r])
      => st[Peer(r)].step \notin NonTerminal

(***************************************************************************)
(* C5.  A message sent before the receiver's latest reset changes nothing  *)
(* of the receiver's state when it is delivered, and makes it send         *)
(* nothing.                                                                *)
(***************************************************************************)
C5_StaleMessageIgnored ==
  [][\A r \in Roles :
       (Delivered(r) /\ Head(chan[r]).sentIn < resets[r])
       => st'[r] = st[r] /\ Sent(r) = {}]_vars

(***************************************************************************)
(* C6.  A message delivered to a role that is past every step in which it  *)
(* waits for that type (or is in success or aborted without waiting for it *)
(* there) leaves the role's step, sifted key and final key unchanged.      *)
(***************************************************************************)
Late(r, type) ==
  /\ st[r].step \notin ExpectedSteps(r, type)
  /\ \A e \in ExpectedSteps(r, type) : Rank(st[r].step) >= Rank(e)

C6_WrongPhaseIsNoOp ==
  [][\A r \in Roles :
       (Delivered(r) /\ Late(r, Head(chan[r]).msg.type))
       => /\ st'[r].step = st[r].step
          /\ st'[r].siftedKey = st[r].siftedKey
          /\ st'[r].finalKey = st[r].finalKey]_vars

(***************************************************************************)
(* C7.  Except for a reset to idle, no step of the system takes a role to  *)
(* an earlier step of the sequence.                                        *)
(***************************************************************************)
C7_StepsOnlyForward ==
  [][\A r \in Roles :
       st'[r].step # "idle" => Rank(st'[r].step) >= Rank(st[r].step)]_vars

(***************************************************************************)
(* C8.  A role in aborted stays in aborted until it is reset to idle.      *)
(***************************************************************************)
C8_AbortedOnlyResets ==
  [][\A r \in Roles :
       st[r].step = "aborted" => st'[r].step \in {"aborted", "idle"}]_vars

C10_FinalKeyLength ==
  \A r \in Roles :
    st[r].step = "success"
    => /\ st[r].paStats # Null
       /\ Len(st[r].finalKey) = st[r].paStats[1].outputLength
       /\ Len(st[r].finalKey) >= 32

(***************************************************************************)
(* C11.  From error-correction onward a role's working key holds none of   *)
(* the sifted-key positions disclosed in the QBER exchanges of its run: it *)
(* is at most as long as the sifted key minus the disclosed positions.     *)
(***************************************************************************)
\* The sifted key r's vectors and keep mask give.
SiftedKeyOf(r) ==
  extractSiftedKey(IF r = "alice" THEN st[r].aliceBits ELSE st[r].bobOutcomes,
                   st[r].keepMask)

C11_SampleRemovedFromKey ==
  \A r \in Roles :
    st[r].step \in {"error-correction", "privacy-amplification", "success"}
    => Len(st[r].siftedKey) + Cardinality(disclosed[r] \cap (0..(Len(SiftedKeyOf(r)) - 1)))
         <= Len(SiftedKeyOf(r))

(***************************************************************************)
(* Direct calls of the functions of utils/bb84-protocol.ts and of the      *)
(* simulator, on arguments drawn from bounded sets.  Each behaviour makes  *)
(* one call; fn records its arguments and what it returned.  None of the   *)
(* functions throws: every call returns a value.                           *)
(***************************************************************************)

\* The options of the "Number of Qubits" selector.
NumQubitsChoices == {100, 200, 500}

\* Key lengths given to performPrivacyAmplification: the short ones, and
\* the sifted lengths the selector's options give when every basis or
\* every other basis agrees.
AmplifierLengths ==
  (0..MaxKeyBits) \cup NumQubitsChoices \cup {n \div 2 : n \in NumQubitsChoices}

\* Error rates: 0, 1 and the fractions a sample of at most 10 bits can show.
Qbers ==
  {Zero, Ratio(1, 1)} \cup {Ratio(p[1], p[2]) : p \in DOMAIN EntropyTable}

QberLeq(q1, q2) == q1.num * q2.den <= q2.num * q1.den

Keys(n) == UNION {[1..k -> Bit] : k \in 0..n}

FlipBit(key, i) == [key EXCEPT ![i] = 1 - @]

Idle ==
  UNCHANGED <<st, ref, timer, chan, config, clicks, resets, over, disclosed,
              chat>>

\* performPrivacyAmplification on one key, twice, with either the error rate
\* or the number of revealed bits varied.  Only the length of the key enters
\* the statistics.
CallPrivacyAmplification ==
  /\ fn.op = "none"
  /\ \E n \in AmplifierLengths, q1, q2 \in Qbers, b1, b2 \in 0..MaxRevealed :
       /\ q1 = q2 \/ b1 = b2
       /\ LET key == [i \in 1..n |-> 0]
          IN fn' = [op |-> "performPrivacyAmplification",
                    key |-> key,
                    estimatedQBER |-> <<q1, q2>>,
                    bitsRevealed |-> <<b1, b2>>,
                    result |-> <<performPrivacyAmplification(key, q1, b1),
                                 performPrivacyAmplification(key, q2, b2)>>]
  /\ Idle

\* generateCommitment(key), then verifyCommitment on the key itself or on
\* the key with one bit flipped.
CallVerifyCommitment ==
  /\ fn.op = "none"
  /\ \E key \in Keys(MaxKeyBits) :
       \E candidate \in {key} \cup {FlipBit(key, i) : i \in 1..Len(key)} :
          fn' = [op |-> "verifyCommitment",
                 key |-> key,
                 commitment |-> generateCommitment(key),
                 candidate |-> candidate,
                 result |-> verifyCommitment(candidate, generateCommitment(key))]
  /\ Idle

\* performErrorCorrection on Alice's key and a key of Bob's that is as long
\* or, as in handleErrorCorrection, shorter.
CallErrorCorrection ==
  /\ fn.op = "none"
  /\ \E n \in 0..MaxEcBits :
       \E aliceKey \in [1..n -> Bit], bobKey \in Keys(n), q \in Qbers :
          fn' = [op |-> "performErrorCorrection",
                 aliceKey |-> aliceKey, bobKey |-> bobKey, estimatedQBER |-> q,
                 result |-> performErrorCorrection(aliceKey, bobKey, q)]
  /\ Idle

\* selectRandomSample(siftedLength, sampleSize).
CallSelectRandomSample ==
  /\ fn.op = "none"
  /\ \E siftedLength \in 0..(MaxCallQubits + 1), sampleSize \in 1..(MaxCallQubits + 2) :
       \E indices \in SampleOutcomes(siftedLength, sampleSize) :
          fn' = [op |-> "selectRandomSample",
                 siftedLength |-> siftedLength, sampleSize |-> sampleSize,
                 threw |-> FALSE, result |-> indices]
  /\ Idle

\* simulateTransmission on vectors of one length, every outcome of the
\* random choices.
CallSimulateTransmission ==
  /\ fn.op = "none"
  /\ \E n \in 0..MaxCallQubits, eveEnabled \in BOOLEAN :
       \E aliceBits \in [1..n -> Bit], aliceBases, bobBases \in [1..n -> Basis] :
          \E bobOutcomes \in TransmissionOutcomes(aliceBits, aliceBases, bobBases,
                                                  eveEnabled) :
             fn' = [op |-> "simulateTransmission",
                    aliceBits |-> aliceBits, aliceBases |-> aliceBases,
                    bobBases |-> bobBases, eveEnabled |-> eveEnabled,
                    result |-> bobOutcomes]
  /\ Idle

\* measureQiskitStyle on one qubit, every outcome of the random choices.
CallMeasure ==
  /\ fn.op = "none"
  /\ \E bit \in Bit, basis, measureBasis \in Basis, eveIntercepted \in BOOLEAN :
       \E m \in measureQiskitStyle(bit, basis, Some(measureBasis), eveIntercepted) :
          fn' = [op |-> "measureQiskitStyle",
                 bit |-> bit, basis |-> basis, measureBasis |-> measureBasis,
                 eveIntercepted |-> eveIntercepted, result |-> m]
  /\ Idle

\* The worked example of eight qubits: bits, Alice's bases and Bob's bases,
\* 0 the rectilinear and 1 the diagonal basis.
ExampleBits == <<1, 0, 1, 1, 0, 0, 1, 0>>
ExampleAliceBases == <<0, 1, 0, 0, 1, 1, 0, 1>>
ExampleBobBases == <<0, 0, 0, 1, 1, 1, 1, 1>>

\* performSifting on two basis vectors, of one length or not, and
\* extractSiftedKey of a bit vector with the resulting mask.
CallSifting ==
  /\ fn.op = "none"
  /\ \E t \in {<<ExampleBits, ExampleAliceBases, ExampleBobBases>>}
               \cup UNION {[1..n -> Bit] \X [1..n -> Basis] \X Keys(MaxCallQubits) :
                             n \in 0..MaxCallQubits} :
       LET keepMask == performSifting(t[2], t[3])
       IN fn' = [op |-> "performSifting",
                 aliceBits |-> t[1], aliceBases |-> t[2], bobBases |-> t[3],
                 threw |-> FALSE,
                 result |-> keepMask,
                 siftedKey |-> extractSiftedKey(t[1], keepMask)]
  /\ Idle

\* calculateQBER on two samples.
CallCalculateQBER ==
  /\ fn.op = "none"
  /\ \E aliceSample, bobSample \in Keys(MaxCallQubits) :
       fn' = [op |-> "calculateQBER",
              aliceSample |-> aliceSample, bobSample |-> bobSample,
              result |-> calculateQBER(aliceSample, bobSample)]
  /\ Idle

InitCalls ==
  /\ Init
  /\ \A r \in Roles : /\ config[r].numQubits = MaxQubits
                      /\ config[r].sampleSize = MaxSample
                      /\ ~config[r].eveEnabled

NextCalls ==
  \/ CallPrivacyAmplification
  \/ CallVerifyCommitment
  \/ CallErrorCorrection
  \/ CallSelectRandomSample
  \/ CallSimulateTransmission
  \/ CallSifting
  \/ CallCalculateQBER
  \/ CallMeasure

SpecCalls == InitCalls /\ [][NextCalls]_vars

(***************************************************************************)
(* C12.  Every call of performPrivacyAmplification reports an outputLength *)
(* of at least 32 and at most inputLength, the length of the key.          *)
(***************************************************************************)
C12_OutputLengthRange ==
  fn.op = "performPrivacyAmplification"
  => /\ fn.result[1].inputLength = Len(fn.key)
     /\ 32 <= fn.result[1].outputLength
     /\ fn.result[1].outputLength <= fn.result[1].inputLength

\* a >= b as JavaScript evaluates it: false when either side is NaN.
Geq(a, b) == a # NaN /\ b # NaN /\ a >= b

(***************************************************************************)
(* C13.  For one key and one bitsRevealed, a larger estimatedQBER never    *)
(* gives a larger outputLength, over all of [0, 1].                        *)
(***************************************************************************)
C13_MonotoneInQber ==
  (fn.op = "performPrivacyAmplification"
     /\ fn.bitsRevealed[1] = fn.bitsRevealed[2]
     /\ QberLeq(fn.estimatedQBER[1], fn.estimatedQBER[2]))
  => Geq(fn.result[1].outputLength, fn.result[2].outputLength)

(***************************************************************************)
(* C14.  For one key and one estimatedQBER, a larger bitsRevealed never    *)
(* gives a larger outputLength.                                            *)
(***************************************************************************)
C14_MonotoneInRevealed ==
  (fn.op = "performPrivacyAmplification"
     /\ fn.estimatedQBER[1] = fn.estimatedQBER[2]
     /\ fn.bitsRevealed[1] <= fn.bitsRevealed[2])
  => ~(fn.result[2].outputLength > fn.result[1].outputLength)

\* Two calls on one key and one QBER where more revealed bits shorten the output.
C14_Witness ==
  /\ fn.op = "performPrivacyAmplification"
  /\ fn.estimatedQBER[1] = fn.estimatedQBER[2]
  /\ fn.bitsRevealed[1] < fn.bitsRevealed[2]
  /\ fn.result[2].outputLength < fn.result[1].outputLength
  /\ fn.result[2].outputLength >= 32

(***************************************************************************)
(* C15.  A key with one bit flipped has a commitment different from the    *)
(* key's own, so verifying the flipped key against the key's commitment    *)
(* fails, the digest being computed in 32-bit wrap-around arithmetic.      *)
(***************************************************************************)
C15_FlippedBitRejected ==
  (fn.op = "verifyCommitment" /\ fn.candidate # fn.key)
  => /\ \E i \in 1..Len(fn.key) : fn.candidate = FlipBit(fn.key, i)
     /\ generateCommitment(fn.candidate) # fn.commitment
     /\ ~fn.result

\* A key long enough for the digest to have wrapped to a negative value,
\* verified with its first bit flipped.
C15_Witness ==
  /\ fn.op = "verifyCommitment"
  /\ Len(fn.key) = MaxKeyBits
  /\ fn.commitment.neg
  /\ fn.candidate = FlipBit(fn.key, 1)
  /\ ~fn.result

(***************************************************************************)
(* C16.  Every key, the empty key included, verifies against its own       *)
(* commitment.                                                             *)
(***************************************************************************)
C16_OwnCommitmentVerifies ==
  (fn.op = "verifyCommitment" /\ fn.candidate = fn.key)
  => /\ fn.commitment = generateCommitment(fn.key)
     /\ fn.result

\* The empty key verified against its own commitment, "0".
C16_Witness ==
  /\ fn.op = "verifyCommitment"
  /\ fn.key = <<>>
  /\ fn.candidate = fn.key
  /\ fn.commitment = [neg |-> FALSE, digits |-> <<0>>]
  /\ fn.result

(***************************************************************************)
(* C17.  For two keys of one length and any estimated QBER, the            *)
(* correctedKey returned by performErrorCorrection equals the reference    *)
(* (Alice's) key: no differing bit is left.                                *)
(***************************************************************************)
C17_CorrectedKeyIsReference ==
  (fn.op = "performErrorCorrection" /\ Len(fn.aliceKey) = Len(fn.bobKey))
  => fn.result.correctedKey = fn.aliceKey

(***************************************************************************)
(* C18.  Without Eve, at every position where Bob's basis equals Alice's,  *)
(* Bob's outcome is Alice's bit, whatever the random choices; the two      *)
(* sifted keys are then identical and every sample of them has QBER 0.     *)
(***************************************************************************)
C18_NoEveNoErrors ==
  (fn.op = "simulateTransmission" /\ ~fn.eveEnabled)
  => LET keepMask == performSifting(fn.aliceBases, fn.bobBases)
         aliceKey == extractSiftedKey(fn.aliceBits, keepMask)
         bobKey == extractSiftedKey(fn.result, keepMask)
     IN /\ Len(fn.result) = Len(fn.aliceBits)
        /\ \A i \in 1..Len(fn.aliceBits) :
              fn.aliceBases[i] = fn.bobBases[i] => fn.result[i] = fn.aliceBits[i]
        /\ aliceKey = bobKey
        /\ \A S \in SUBSET (0..(Len(aliceKey) - 1)) :
              calculateQBER(SampleOf(aliceKey, SortedSeq(S)),
                            SampleOf(bobKey, SortedSeq(S))) = Zero

\* A transmission without Eve where the bases agree at some position and, at
\* a position where they differ, the random outcome is not Alice's bit.
C18_Witness ==
  /\ fn.op = "simulateTransmission"
  /\ ~fn.eveEnabled
  /\ Len(fn.aliceBits) = MaxCallQubits
  /\ \E i \in 1..Len(fn.aliceBits) : fn.aliceBases[i] = fn.bobBases[i]
  /\ \E j \in 1..Len(fn.aliceBits) :
        fn.aliceBases[j] # fn.bobBases[j] /\ fn.result[j] # fn.aliceBits[j]

(***************************************************************************)
(* C19.  When Alice starts the QBER check with config.sampleSize greater   *)
(* than the length of her sifted key, the run becomes Aborted with a       *)
(* reason: no shortened sample is used and the step does not stay at the   *)
(* QBER check.                                                             *)
(***************************************************************************)
C19_ShortKeyAborts ==
  [][(handleQBEREstimation("alice")
        /\ config["alice"].sampleSize > Len(ref["alice"].siftedKey))
     => /\ st'["alice"].step = "aborted"
        /\ st'["alice"].abortReason # Null]_vars

(***************************************************************************)
(* C20.  selectRandomSample(siftedLength, sampleSize) fails with           *)
(* InsufficientLength whenever sampleSize > siftedLength, instead of       *)
(* returning an index list.                                                *)
(***************************************************************************)
C20_OversizedSampleFails ==
  (fn.op = "selectRandomSample" /\ fn.sampleSize > fn.siftedLength)
  => fn.threw

\* The call on the worked example.
IsExampleCall ==
  /\ fn.op = "performSifting"
  /\ fn.aliceBits = ExampleBits
  /\ fn.aliceBases = ExampleAliceBases
  /\ fn.bobBases = ExampleBobBases

(***************************************************************************)
(* C21.  As specified: on the worked example, sifting gives the keep mask  *)
(* T,F,T,F,T,T,F,T and Alice's sifted key is 1,1,0,0.                      *)
(***************************************************************************)
C21_ExampleFourBits ==
  IsExampleCall
  => /\ fn.result = <<TRUE, FALSE, TRUE, FALSE, TRUE, TRUE, FALSE, TRUE>>
     /\ fn.siftedKey = <<1, 1, 0, 0>>

(***************************************************************************)
(* C21, amended.  On the worked example, sifting gives the keep mask       *)
(* T,F,T,F,T,T,F,T and Alice's sifted key is 1,1,0,0,0: one bit for each   *)
(* of the five kept positions 1, 3, 5, 6 and 8.                            *)
(***************************************************************************)
C21_ExampleFiveBits ==
  IsExampleCall
  => /\ fn.result = <<TRUE, FALSE, TRUE, FALSE, TRUE, TRUE, FALSE, TRUE>>
     /\ fn.siftedKey = <<1, 1, 0, 0, 0>>

\* The call on the worked example, returned without failure.
C21_Witness ==
  /\ IsExampleCall
  /\ ~fn.threw
  /\ Len(fn.siftedKey) = 5

(***************************************************************************)
(* C23.  performSifting on two basis sequences of different lengths fails  *)
(* with ShapeMismatch instead of returning a keep mask.                    *)
(***************************************************************************)
C23_ShapeMismatchFails ==
  (fn.op = "performSifting" /\ Len(fn.aliceBases) # Len(fn.bobBases))
  => fn.threw

\* The true positions of a mask, ascending.
TruePositions(mask) == SortedSeq({i \in 1..Len(mask) : mask[i]})

(***************************************************************************)
(* C24.  For basis sequences a and b of one length, performSifting(a, b)   *)
(* is a mask of that length with keep[i] = (a[i] = b[i]) for every i, and  *)
(* extractSiftedKey(bits, mask) is exactly the bits at the true positions  *)
(* of the mask, in their original order.                                   *)
(***************************************************************************)
C24_SiftKeepsEqualBases ==
  (fn.op = "performSifting" /\ Len(fn.aliceBases) = Len(fn.bobBases))
  => /\ Len(fn.result) = Len(fn.aliceBases)
     /\ \A i \in 1..Len(fn.result) :
           fn.result[i] <=> (fn.aliceBases[i] = fn.bobBases[i])
     /\ LET kept == TruePositions(fn.result)
        IN fn.siftedKey = [j \in 1..Len(kept) |-> fn.aliceBits[kept[j]]]

\* A call on sequences of one length that keeps the first position and a
\* later one and drops one between them.
C24_Witness ==
  /\ fn.op = "performSifting"
  /\ Len(fn.aliceBases) = Len(fn.bobBases)
  /\ Len(fn.aliceBases) >= 3
  /\ fn.result[1] /\ ~fn.result[2] /\ fn.result[3]
  /\ fn.aliceBits[1] # fn.aliceBits[3]
  /\ fn.siftedKey[1] = fn.aliceBits[1]

\* The positions of a at which b has another bit or none.
Differing(a, b) == {i \in 1..Len(a) : i > Len(b) \/ a[i] # b[i]}

(***************************************************************************)
(* C25.  calculateQBER(s, s) is 0 for every bit sequence s; for two empty  *)
(* samples it is defined and 0; in general it is the number of differing   *)
(* positions divided by the length of the sample.                          *)
(***************************************************************************)
C25_QberIsErrorRatio ==
  fn.op = "calculateQBER"
  => /\ fn.aliceSample = fn.bobSample => fn.result = Zero
     /\ Len(fn.aliceSample) = 0 => fn.result = Zero
     /\ fn.result.den > 0
     /\ fn.result.num * Len(fn.aliceSample)
          = Cardinality(Differing(fn.aliceSample, fn.bobSample)) * fn.result.den

\* Two samples of one length that differ in some but not all positions.
C25_Witness ==
  /\ fn.op = "calculateQBER"
  /\ Len(fn.aliceSample) = Len(fn.bobSample)
  /\ fn.result # Zero
  /\ fn.result.num < fn.result.den

(***************************************************************************)
(* C22.  final_key_commitment is sent by Alice only: Bob never sends one,  *)
(* and Bob enters success only by verifying a commitment delivered from    *)
(* Alice, never through his own privacy-amplification action.              *)
(***************************************************************************)
C22_OnlyAliceCommits ==
  [][/\ \A m \in Sent("bob") : m.type # "final_key_commitment"
     /\ (st["bob"].step # "success" /\ st'["bob"].step = "success")
        => /\ Delivered("bob")
           /\ Head(chan["bob"]).msg.type = "final_key_commitment"]_vars

(***************************************************************************)
(* C26.  Reset sets the role's step to idle and every protocol field to    *)
(* its initial value (empty bit, basis, keep-mask, sifted-key,             *)
(* sample-index and final-key vectors; null qber, ecStats, paStats and     *)
(* abortReason), clears peerReady and hasSentBases, and leaves the         *)
(* configuration unchanged.                                                *)
(***************************************************************************)
C26_ResetRestoresInitial ==
  [][\A r \in Roles :
       resets'[r] # resets[r]
       => /\ st'[r].step = "idle"
          /\ \A f \in {"aliceBits", "aliceBases", "bobBases", "bobOutcomes",
                       "keepMask", "siftedKey", "sampleIndices", "finalKey"} :
                st'[r][f] = <<>>
          /\ \A f \in {"qber", "ecStats", "paStats", "abortReason"} :
                st'[r][f] = Null
          /\ ~st'[r].peerReady /\ ~st'[r].hasSentBases
          /\ config' = config]_vars

\* Bob has reset after a run in which he held a sifted key, a QBER and a
\* final key, all gone now; Alice still shows her result of that run.
C26_Witness ==
  /\ resets["bob"] = 1
  /\ st["bob"].step = "idle"
  /\ st["bob"].finalKey = <<>> /\ st["bob"].qber = Null
  /\ st["alice"].step = "success"
  /\ st["alice"].qber # Null
  /\ Len(st["alice"].aliceBits) = LongQubits

(***************************************************************************)
(* C27.  When Alice performs error correction, the reconciler is given     *)
(* her post-sample key and Bob's post-sample key of the same length, and   *)
(* the correctedKey that replaces the working key has that length: it is   *)
(* not shorter than Alice's key.                                           *)
(***************************************************************************)
C27_CorrectedKeyKeepsLength ==
  [][handleErrorCorrection("alice")
     => LET bobKey == removeSampledBits(
                        extractSiftedKey(ref["alice"].bobOutcomes, ref["alice"].keepMask),
                        ref["alice"].sampleIndices)
        IN /\ Len(bobKey) = Len(ref["alice"].siftedKey)
           /\ Len(st'["alice"].ecStats[1].correctedKey) = Len(ref["alice"].siftedKey)
           /\ Len(st'["alice"].siftedKey) = Len(ref["alice"].siftedKey)]_vars

(***************************************************************************)
(* C28.  Alice is in success only after she has received                   *)
(* final_key_confirmed with match = true for the commitment she sent in    *)
(* that run: she never enters success before Bob's verification result,    *)
(* and she never moves from success to aborted.                            *)
(***************************************************************************)
C28_SuccessAfterConfirmation ==
  [][/\ (st["alice"].step # "success" /\ st'["alice"].step = "success")
        => /\ Delivered("alice")
           /\ Head(chan["alice"]).msg.type = "final_key_confirmed"
           /\ Head(chan["alice"]).msg.match
           /\ Head(chan["alice"]).sentIn = resets["alice"]
     /\ st["alice"].step = "success" => st'["alice"].step # "aborted"]_vars

(***************************************************************************)
(* C29.  For every qber_request Alice sends, the QBER she computes when    *)
(* the matching qber_response arrives is taken over the sample indices Bob *)
(* used for that request, so both obtain the same QBER and the same        *)
(* accept/abort decision, also when Alice starts the QBER check a second   *)
(* time before the first response has arrived.                             *)
(***************************************************************************)
C29_SameSampleBothSides ==
  [][(/\ Delivered("alice")
      /\ Head(chan["alice"]).msg.type = "qber_response"
      /\ Head(chan["alice"]).sentIn = resets["alice"]
      /\ ref["alice"].step = "qber")
     => LET e == Head(chan["alice"])
            aliceKey == extractSiftedKey(ref["alice"].aliceBits, ref["alice"].keepMask)
            hers == calculateQBER(SampleOf(aliceKey, ref["alice"].sampleIndices),
                                  e.msg.sampleBits)
            his == calculateQBER(SampleOf(aliceKey, e.about[1]), e.msg.sampleBits)
        IN /\ e.about = Some(ref["alice"].sampleIndices)
           /\ hers = his
           /\ QberExceeds(hers) <=> QberExceeds(his)]_vars

(***************************************************************************)
(* Fair scheduling: the data channel delivers, React renders, timeouts     *)
(* fire, and a user does not leave an enabled button unclicked for ever.   *)
(***************************************************************************)
Fairness ==
  \A r \in Roles :
     /\ WF_vars(Deliver(r)) /\ WF_vars(Render(r))
     /\ WF_vars(ClickPrepare(r)) /\ WF_vars(PrepareTimeout(r))
     /\ WF_vars(ClickMeasure(r)) /\ WF_vars(MeasureTimeout(r))
     /\ WF_vars(ClickSifting(r)) /\ WF_vars(SiftingTimeout(r))
     /\ WF_vars(handleQBEREstimation(r))
     /\ WF_vars(handleErrorCorrection(r))
     /\ WF_vars(handlePrivacyAmplification(r))
     /\ WF_vars(handleReset(r))

SpecFair == Spec /\ Fairness

\* A run has started: some role has left idle.
Started == \E r \in Roles : st[r].step # "idle"

\* Both roles are at an end of the run.
BothTerminal == \A r \in Roles : st[r].step \in {"success", "aborted"}

(***************************************************************************)
(* C30.  Under in-order delivery and fair local actions, every started run *)
(* eventually reaches success or aborted at both roles; no run stays in an *)
(* intermediate phase for ever.  (Runs cut short by the bound on clicks    *)
(* are left out.)                                                          *)
(***************************************************************************)
C30_EveryRunEnds ==
  Started ~> (BothTerminal \/ clicks >= MaxClicks)

\* max(4, ceil(1 / (2 * max(q, 0.01)))) as the least whole number that
\* is at least 4 and at least 1 / (2 * max(q, 1/100)).
ExpectedBlockSize(q) ==
  LET m == IF q.num * 100 <= q.den THEN [num |-> 1, den |-> 100] ELSE q
  IN CHOOSE k \in MinBlockSize..MaxBlockSize :
       /\ 2 * m.num * k >= m.den
       /\ k = MinBlockSize \/ 2 * m.num * (k - 1) < m.den

\* The blocks [start, end) of a key of n bits, 0-based, for block size bs.
Blocks(n, bs) ==
  {<<start, Min(start + bs, n)>> : start \in {k * bs : k \in 0..n} \cap (0..(n - 1))}

\* The blocks in which the number of ones differs in parity between a and b;
\* a bit that b lacks adds nothing to b's parity.
Mismatching(a, b, bs) ==
  {blk \in Blocks(Len(a), bs) :
     Cardinality({i \in blk[1]..(blk[2] - 1) :
                    a[i + 1] # (IF i + 1 <= Len(b) THEN b[i + 1] ELSE 0)}) % 2 = 1}

C32_MidpointFlipTwoPasses ==
  (fn.op = "performErrorCorrection" /\ Len(fn.aliceKey) = Len(fn.bobKey))
  => LET bs == ExpectedBlockSize(fn.estimatedQBER)
         bad == Mismatching(fn.aliceKey, fn.bobKey, bs)
         mids == {(blk[1] + blk[2]) \div 2 : blk \in bad}
     IN /\ Len(fn.result.correctedKey) = Len(fn.bobKey)
        /\ \A i \in 1..Len(fn.bobKey) :
              fn.result.correctedKey[i] # fn.bobKey[i] <=> (i - 1) \in mids
        /\ Mismatching(fn.aliceKey, fn.result.correctedKey, bs) = {}
        /\ fn.result.parityRounds = IF bad = {} THEN 1 ELSE 2

\* Two mismatching blocks, each flipped at its midpoint, in two passes.
C32_Witness ==
  /\ fn.op = "performErrorCorrection"
  /\ Len(fn.aliceKey) = Len(fn.bobKey)
  /\ Cardinality(Mismatching(fn.aliceKey, fn.bobKey,
                             ExpectedBlockSize(fn.estimatedQBER))) = 2
  /\ fn.result.parityRounds = 2
  /\ fn.result.correctedKey # fn.aliceKey

(***************************************************************************)
(* C33.  With Eve intercepting: if her basis equals Alice's, her outcome   *)
(* is Alice's bit; Bob measures the state (Eve's basis, Eve's outcome), so *)
(* if his basis equals hers his outcome is hers; and when all three bases  *)
(* agree Bob's outcome is Alice's bit.                                     *)
(***************************************************************************)
C33_EveResendsHerOutcome ==
  (fn.op = "measureQiskitStyle" /\ fn.eveIntercepted)
  => /\ fn.result.eveBasis # Null /\ fn.result.eveOutcome # Null
     /\ fn.result.eveBasis = Some(fn.basis) => fn.result.eveOutcome = Some(fn.bit)
     /\ fn.result.eveBasis = Some(fn.measureBasis)
          => fn.result.bobOutcome = fn.result.eveOutcome[1]
     /\ (fn.result.eveBasis = Some(fn.basis) /\ fn.measureBasis = fn.basis)
          => fn.result.bobOutcome = fn.bit

\* Eve in the other basis than Alice reads the wrong bit, and Bob, in Eve's
\* basis, reads what Eve read.
C33_Witness ==
  /\ fn.op = "measureQiskitStyle" /\ fn.eveIntercepted
  /\ fn.result.eveBasis = Some(fn.measureBasis)
  /\ fn.measureBasis # fn.basis
  /\ fn.result.eveOutcome # Some(fn.bit)
  /\ fn.result.bobOutcome # fn.bit

(***************************************************************************)
(* C34.  For sampleSize <= siftedLength, selectRandomSample returns        *)
(* exactly sampleSize indices, strictly increasing (hence without          *)
(* duplicates) and all in [0, siftedLength), whatever the random source    *)
(* yields.                                                                 *)
(***************************************************************************)
C34_SampleIsSortedSubset ==
  (fn.op = "selectRandomSample" /\ fn.sampleSize <= fn.siftedLength)
  => /\ ~fn.threw
     /\ Len(fn.result) = fn.sampleSize
     /\ \A i \in 1..Len(fn.result) : fn.result[i] \in 0..(fn.siftedLength - 1)
     /\ \A i \in 1..(Len(fn.result) - 1) : fn.result[i] < fn.result[i + 1]

\* A sample of two indices out of at least three that leaves out index 0 and
\* is not a run of neighbours.
C34_Witness ==
  /\ fn.op = "selectRandomSample"
  /\ fn.sampleSize = 2 /\ fn.siftedLength >= 3
  /\ fn.result[1] > 0
  /\ fn.result[2] > fn.result[1] + 1

\* Role r sends an announce_bases in this step.
Announces(r) == \E m \in Sent(r) : m.type = "announce_bases"

C36_HandlerSeesLatestState ==
  [][\A r \in Roles :
       Delivered(r)
       => LET m == Head(chan[r]).msg
              fresh == handleMessage(r, st[r], st[r], m)
          IN /\ st'[r] = fresh.st
             /\ Sent(r) = Range(fresh.out)]_vars

(***************************************************************************)
(* C37.  A role that has been through the chat and is back in idle handles *)
(* protocol messages again: a 'prepared' delivered to Bob in idle is       *)
(* handled by the component's handler, which records Alice's bits and      *)
(* bases and sets peerReady, so that Bob can measure in a second run.      *)
(***************************************************************************)
C37_ProtocolHandlerAfterChat ==
  [][(/\ Delivered("bob")
      /\ Head(chan["bob"]).msg.type = "prepared"
      /\ st["bob"].step = "idle")
     => st'["bob"] = OnPrepared("bob", ref["bob"], st["bob"],
                                Head(chan["bob"]).msg).st]_vars

(***************************************************************************)
(* C38.  Ending the chat terminates: a role that has ended the chat since  *)
(* it entered it does not end it again when a chat_ended is delivered to   *)
(* it; it sends no further chat_ended and schedules no second reset.       *)
(***************************************************************************)
C38_ChatEndsOnce ==
  [][\A r \in Roles :
       (/\ Delivered(r)
        /\ Head(chan[r]).msg.type = "chat_ended"
        /\ chat[r].ended >= 1)
       => /\ Sent(r) = {}
          /\ chat'[r] = chat[r]]_vars

====
